---- MODULE Spec2Model ----
(***************************************************************************)
(* Model of the RQ Mobile mock backend (src/app/main.py).                  *)
(*                                                                         *)
(* State: the user store MOCK_USERS (email -> user record), the property   *)
(* catalog MOCK_PROPERTIES (generated once at start-up), the last request  *)
(* served and its response, and, for the threaded view, each worker        *)
(* thread's position inside the handler it is running.                     *)
(*                                                                         *)
(* Text that the handlers inspect character by character (city, title,     *)
(* query) is a sequence of symbols: Hebrew letters are written by name     *)
(* ("alef", "bet", ...), Latin letters, digits and the space as            *)
(* themselves.  Text that is only compared or concatenated (ids, emails,   *)
(* tokens) is a string.                                                    *)
(***************************************************************************)
EXTENDS Integers, Sequences, FiniteSets, TLC

VARIABLES MOCK_USERS, MOCK_PROPERTIES, req, resp, registered, pc, frame, wresp

vars == <<MOCK_USERS, MOCK_PROPERTIES, req, resp, registered, pc, frame, wresp>>

(***************************************************************************)
(* Bounds of the model.                                                    *)
(***************************************************************************)
\* number of outcomes of the start-up random generator that are explored
NumSeeds == 2
\* pages requested: MinPage .. MaxPage, with MinPage == -1
MaxPage == 3
\* worker threads serving requests at the same time
NumWorkers == 2

(***************************************************************************)
(* Program constants.                                                      *)
(***************************************************************************)
CatalogSize == 50
MaxPageSize == 50
PriceLo == 1000000
PriceHi == 6000000
SizeLo == 50
SizeHi == 150
ScoreLo == 40
ScoreHi == 95
SavedCount == 5
ExpiresIn == 3600

Min(a, b) == IF a <= b THEN a ELSE b
Max(a, b) == IF a >= b THEN a ELSE b

(***************************************************************************)
(* Text.                                                                   *)
(***************************************************************************)
\* str.lower(): cased (Latin) letters go to lower case, every other symbol
\* (Hebrew letters, digits, space) is left as it is.
LowerChar(c) ==
  CASE c = "A" -> "a" [] c = "B" -> "b" [] c = "E" -> "e" [] c = "I" -> "i"
    [] c = "L" -> "l" [] c = "T" -> "t" [] c = "V" -> "v"
    [] OTHER -> c

Lower(s) == <<>> \o [i \in 1..Len(s) |-> LowerChar(s[i])]

\* Python's "q in s" on strings: q occurs in s as a contiguous substring.
Contains(q, s) ==
  \E i \in 0..(Len(s) - Len(q)) : \A j \in 1..Len(q) : s[i + j] = q[j]

\* str(n) / f"{n}" for a non-negative integer, as a sequence of digit symbols.
RECURSIVE Digits(_)
Digits(n) ==
  IF n < 10 THEN <<ToString(n)>> ELSE Digits(n \div 10) \o <<ToString(n % 10)>>

cities ==
  << <<"tav", "lamed", " ", "alef", "bet", "yod", "bet">>,
     <<"yod", "resh", "vav", "shin", "lamed", "yod", "mem_f">>,
     <<"het", "yod", "pe", "he">>,
     <<"resh", "alef", "shin", "vav", "nun_f", " ", "lamed", "tsadi", "yod", "vav", "nun_f">>,
     <<"nun", "tav", "nun", "yod", "he">> >>

property_types == <<"apartment", "penthouse", "house">>

\* the choices of rooms, in halves of a room: 1.5, 2, 2.5, 3, 3.5, 4, 5
room_choices == <<3, 4, 5, 6, 7, 8, 10>>

\* int(rooms): truncation of the room count to an integer
IntRooms(halves) == halves \div 2

\* f"דירה {int(rooms)} חדרים ב{city}"
Title(halves, city) ==
  <<"dalet", "yod", "resh", "he", " ">> \o Digits(IntRooms(halves))
    \o <<" ", "het", "dalet", "resh", "yod", "mem_f", " ", "bet">> \o city

(***************************************************************************)
(* The start-up generator.  The pseudo-random source is a family of        *)
(* outcomes indexed by a seed: Draw(seed, i, k, n) is the k-th draw of     *)
(* iteration i, uniform over 0 .. n-1.                                     *)
(***************************************************************************)
Draw(seed, i, k, n) == (seed * 7919 + i * 104729 + k * 1299709 + seed * i * k * 31) % n

RandInt(seed, i, k, lo, hi) == lo + Draw(seed, i, k, hi - lo + 1)

Choice(seed, i, k, seq) == seq[1 + Draw(seed, i, k, Len(seq))]

MockProperty(seed, i) ==
  LET city  == Choice(seed, i, 1, cities)
      price == RandInt(seed, i, 2, PriceLo, PriceHi)
      size  == RandInt(seed, i, 3, SizeLo, SizeHi)
      rooms == Choice(seed, i, 4, room_choices)
  IN  [ id           |-> "property-" \o ToString(i),
        title        |-> Title(rooms, city),
        propertyType |-> Choice(seed, i, 5, property_types),
        address      |-> [city |-> city],
        price        |-> price,
        pricePerSqm  |-> price \div size,
        rooms        |-> rooms,
        sizeSqm      |-> size,
        rqScore      |-> RandInt(seed, i, 6, ScoreLo, ScoreHi) ]

generate_mock_properties(seed) == [i \in 1..CatalogSize |-> MockProperty(seed, i)]

(***************************************************************************)
(* Responses.  A handler's outcome is [status, handler, body]: the HTTP    *)
(* status, the endpoint function that produced it, and the JSON body.      *)
(* HTTPException(status_code, detail) gives the detail as body; any other  *)
(* exception leaving a handler gives the framework's 500.                  *)
(***************************************************************************)
Ok(h, body) == [status |-> 200, handler |-> h, body |-> body]

HTTPException(h, code, slug, message) ==
  [status |-> code, handler |-> h, body |-> [error |-> slug, message |-> message]]

Unhandled(h, exc) ==
  [status |-> 500, handler |-> h, body |-> [error |-> "internal_server_error", exception |-> exc]]

(***************************************************************************)
(* Search.                                                                 *)
(***************************************************************************)
NoQuery == [present |-> FALSE, text |-> <<>>]
Query(text) == [present |-> TRUE, text |-> text]

\* "if query:" is true for a query that is given and not the empty string
Truthy(query) == query.present /\ query.text # <<>>

\* seq[start:end] with Python's rules: a negative index counts from the end,
\* indexes are clamped to the sequence, an empty range gives the empty list.
SliceIndex(i, n) == IF i < 0 THEN Max(i + n, 0) ELSE Min(i, n)

\* a variant that takes the element at index end as well
PySliceInclusive(seq, start, end) ==
  LET lo == SliceIndex(start, Len(seq))
      hi == SliceIndex(end + 1, Len(seq))
  IN  IF lo >= hi THEN <<>> ELSE SubSeq(seq, lo + 1, hi)

PySlice(seq, start, end) ==
  LET lo == SliceIndex(start, Len(seq))
      hi == SliceIndex(end, Len(seq))
  IN  IF lo >= hi THEN <<>> ELSE SubSeq(seq, lo + 1, hi)

Matches(q, p) == Contains(q, Lower(p.address.city)) \/ Contains(q, Lower(p.title))

Filter(props, query) ==
  IF Truthy(query)
    THEN LET q == Lower(query.text) IN SelectSeq(props, LAMBDA p : Matches(q, p))
    ELSE props

\* the effective page size
PageSize(pageSize) == Min(pageSize, MaxPageSize)

\* a variant that counts the pages exactly: the ceiling of total / page_size
TotalPagesCeil(total, page_size) == (total + page_size - 1) \div page_size

\* (len(filtered) // page_size) + 1, for page_size # 0
TotalPages(total, page_size) == (total \div page_size) + 1

search_properties(props, page, pageSize, query) ==
  LET page_size == PageSize(pageSize)
      filtered  == Filter(props, query)
      start     == (page - 1) * page_size
      end       == start + page_size
      items     == PySlice(filtered, start, end)
  IN  IF page_size = 0
        THEN Unhandled("search_properties", "ZeroDivisionError")
        ELSE Ok("search_properties",
                [ items |-> items,
                  meta  |-> [ page       |-> page,
                              pageSize   |-> page_size,
                              totalPages |-> TotalPages(Len(filtered), page_size),
                              totalItems |-> Len(filtered) ] ])

(***************************************************************************)
(* Property detail and saved properties.                                   *)
(***************************************************************************)
\* next((p for p in props if p["id"] == property_id), None): the index of
\* the first property with that id, 0 for None
FindProperty(props, property_id) ==
  IF \E i \in 1..Len(props) : props[i].id = property_id
    THEN CHOOSE i \in 1..Len(props) :
           /\ props[i].id = property_id
           /\ \A j \in 1..(i - 1) : props[j].id # property_id
    ELSE 0

\* num/den rounded to the nearest integer, a half going to the even neighbour
\* (Python's round)
RoundHalfEven(num, den) ==
  LET q == num \div den
      r == num % den
  IN  IF 2 * r > den \/ (2 * r = den /\ q % 2 = 1) THEN q + 1 ELSE q

\* a variant that rounds the product instead of truncating it
RoundPct(price, pct) == RoundHalfEven(price * pct, 100)

\* int(price * f) for f = pct/100: the product truncated toward zero.  For
\* every price of the generator's range and pct in {105, 108} the double
\* product lies within a twentieth of the exact one, so its truncation is
\* that of the exact product.
TruncPct(price, pct) == (price * pct) \div 100

\* full_property = prop.copy(); full_property.update({...}).
\* rnd: this call's draws of the random amenities
get_property(props, property_id, rnd) ==
  LET i == FindProperty(props, property_id)
  IN  IF i = 0
        THEN HTTPException("get_property", 404, "not_found", "Property not found")
        ELSE LET full_property == props[i]
             IN  Ok("get_property",
                    [ media    |-> [ images |-> << <<property_id, 1>>, <<property_id, 2>>, <<property_id, 3>> >>,
                                     videos |-> <<>> ],
                      amenities  |-> [mamad |-> rnd.mamad, parkingSpots |-> rnd.parkingSpots],
                      prediction |-> [ forecast12Months |-> TruncPct(full_property.price, 105),
                                       forecast24Months |-> TruncPct(full_property.price, 108),
                                       confidencePct    |-> 80 ] ]
                    @@ full_property)

\* rnd[i]: the draws for the i-th saved entry
get_saved_properties(props, rnd) ==
  LET front == PySlice(props, 0, SavedCount)
  IN  Ok("get_saved_properties",
         [ items |-> [i \in 1..Len(front) |->
                        [ id       |-> "saved-" \o front[i].id,
                          property |-> front[i],
                          meta     |-> [ alertsEnabled |-> rnd[i].alertsEnabled,
                                         daysSaved     |-> rnd[i].daysSaved ] ] ] ])

save_property(props, propertyId, alertsEnabled) ==
  LET i == FindProperty(props, propertyId)
  IN  IF i = 0
        THEN HTTPException("save_property", 404, "not_found", "Property not found")
        ELSE Ok("save_property",
                [ id       |-> "saved-" \o propertyId,
                  property |-> props[i],
                  meta     |-> [alertsEnabled |-> alertsEnabled, daysSaved |-> 0] ])

(***************************************************************************)
(* Users and authentication.                                               *)
(***************************************************************************)
None == "<None>"

SeedUsers ==
  [ e \in {"test@example.com", "demo@rq.app"} |->
      IF e = "test@example.com"
        THEN [ id |-> "user-123", firstName |-> "Test", lastName |-> "Mishtamesh",
               email |-> "test@example.com", phone |-> "+972501234567",
               subscriptionTier |-> "premium",
               preferredLocations |-> <<cities[1], <<"resh", "mem", "tav", " ", "gimel", "nun_f">> >> ]
        ELSE [ id |-> "user-456", firstName |-> "Demo", lastName |-> "HaMishtamesh",
               email |-> "demo@rq.app", phone |-> None,
               subscriptionTier |-> "free", preferredLocations |-> <<>> ] ]

\* a variant that accepts the first literal only
OnePassword == {"password123"}

\* the passwords login accepts
MagicPasswords == {"password123", "demo123"}

\* tokens for user_id; hex1, hex2: the two uuid4().hex[:16] draws
generate_tokens(user_id, hex1, hex2) ==
  [ accessToken  |-> "access-token-" \o user_id \o "-" \o hex1,
    refreshToken |-> "refresh-token-" \o user_id \o "-" \o hex2,
    expiresIn    |-> ExpiresIn ]

\* a variant that looks the email up among the stored ids, not the keys
EmailAmongIds(users, email) == email \in {users[e].id : e \in DOMAIN users}

\* "payload.email in MOCK_USERS"
EmailTaken(users, email) == email \in DOMAIN users

\* f"user-{uuid.uuid4().hex[:8]}"
UserId(hex8) == "user-" \o hex8

\* the user record register builds from the request body
NewUser(payload, user_id) ==
  [ id |-> user_id, firstName |-> payload.firstName, lastName |-> payload.lastName,
    email |-> payload.email, phone |-> payload.phone,
    subscriptionTier |-> "free", preferredLocations |-> <<>> ]

\* MOCK_USERS[email] = user
Put(users, email, user) ==
  [e \in DOMAIN users \cup {email} |-> IF e = email THEN user ELSE users[e]]

Conflict == HTTPException("register", 409, "conflict", "Email already exists")

Unauthorized == HTTPException("login", 401, "unauthorized", "Invalid credentials")

\* the handler run without interruption: the new store and the response
register(users, payload, rnd) ==
  IF EmailTaken(users, payload.email)
    THEN [users |-> users, resp |-> Conflict]
    ELSE LET user_id == UserId(rnd.hex8)
             user    == NewUser(payload, user_id)
         IN  [ users |-> Put(users, payload.email, user),
               resp  |-> Ok("register",
                            [user |-> user, tokens |-> generate_tokens(user_id, rnd.hex1, rnd.hex2)]) ]

\* "email not in MOCK_USERS or password not in {...}"
LoginRejected(users, email, password) ==
  ~EmailTaken(users, email) \/ password \notin MagicPasswords

login(users, payload, rnd) ==
  IF LoginRejected(users, payload.email, payload.password)
    THEN Unauthorized
    ELSE LET user == users[payload.email]
         IN  Ok("login", [user |-> user, tokens |-> generate_tokens(user.id, rnd.hex1, rnd.hex2)])

refresh_token(rnd) == Ok("refresh_token", generate_tokens("user-123", rnd.hex1, rnd.hex2))

get_profile(users) == Ok("get_profile", users["test@example.com"])

\* the handlers that return {} whatever they are given
Empty(h) == Ok(h, [empty |-> TRUE])

health_ping == Ok("health_ping", [status |-> "ok"])

get_subscription == Ok("get_subscription", [tier |-> "premium", autoRenewing |-> TRUE])

verify_receipt ==
  Ok("verify_receipt",
     [ success |-> TRUE, subscription |-> [tier |-> "premium", autoRenewing |-> TRUE],
       message |-> "Subscription activated" ])

\* range(pageSize) is empty for pageSize <= 0; totals are fixed
get_notifications(page, pageSize) ==
  Ok("get_notifications",
     [ items |-> [i \in 1..Max(pageSize, 0) |-> [id |-> "notif-" \o ToString(i - 1), readAt |-> None]],
       meta  |-> [page |-> page, pageSize |-> pageSize, totalPages |-> 3, totalItems |-> 25] ])

(***************************************************************************)
(* Routing.  The routes in the order the decorators declare them; a        *)
(* request goes to the first route whose method and path both match.  A    *)
(* path parameter matches any one segment.                                 *)
(***************************************************************************)
Api(rest) == <<"api", "v2", "mobile">> \o rest

PathParams == {"{property_id}", "{saved_id}", "{notification_id}"}

Routes ==
  << [method |-> "GET",    path |-> <<"health", "ping">>,                         handler |-> "health_ping"],
     [method |-> "POST",   path |-> Api(<<"auth", "register">>),                  handler |-> "register"],
     [method |-> "POST",   path |-> Api(<<"auth", "login">>),                     handler |-> "login"],
     [method |-> "POST",   path |-> Api(<<"auth", "refresh">>),                   handler |-> "refresh_token"],
     [method |-> "POST",   path |-> Api(<<"auth", "logout">>),                    handler |-> "logout"],
     [method |-> "POST",   path |-> Api(<<"auth", "verify-device">>),             handler |-> "verify_device"],
     [method |-> "GET",    path |-> Api(<<"properties", "search">>),              handler |-> "search_properties"],
     [method |-> "GET",    path |-> Api(<<"properties", "{property_id}">>),       handler |-> "get_property"],
     [method |-> "GET",    path |-> Api(<<"properties", "saved">>),               handler |-> "get_saved_properties"],
     [method |-> "POST",   path |-> Api(<<"properties", "saved">>),               handler |-> "save_property"],
     [method |-> "DELETE", path |-> Api(<<"properties", "saved", "{saved_id}">>), handler |-> "delete_saved_property"],
     [method |-> "GET",    path |-> Api(<<"user", "profile">>),                   handler |-> "get_profile"],
     [method |-> "GET",    path |-> Api(<<"user", "subscription">>),              handler |-> "get_subscription"],
     [method |-> "GET",    path |-> Api(<<"notifications">>),                     handler |-> "get_notifications"],
     [method |-> "PUT",    path |-> Api(<<"notifications", "{notification_id}", "read">>),
                                                                                  handler |-> "mark_notification_read"],
     [method |-> "POST",   path |-> Api(<<"billing", "ios", "verify">>),          handler |-> "verify_receipt"] >>

PathMatches(pattern, path) ==
  /\ Len(pattern) = Len(path)
  /\ \A i \in 1..Len(path) : pattern[i] \in PathParams \/ pattern[i] = path[i]

\* the index of the route that serves the request: the first route matching
\* method and path; 0 when none does
Dispatch(method, path) ==
  LET full == {i \in 1..Len(Routes) :
                 Routes[i].method = method /\ PathMatches(Routes[i].path, path)}
  IN  IF full = {} THEN 0 ELSE CHOOSE i \in full : \A j \in full : i <= j

\* no route serves the request: 405 when some route has the path, else 404
NoRoute(path) ==
  IF \E i \in 1..Len(Routes) : PathMatches(Routes[i].path, path)
    THEN [status |-> 405, handler |-> "none", body |-> [detail |-> "Method Not Allowed"]]
    ELSE [status |-> 404, handler |-> "none", body |-> [detail |-> "Not Found"]]

\* the value bound to the path parameter of route r
PathParam(r, path) ==
  path[CHOOSE i \in 1..Len(path) : Routes[r].path[i] \in PathParams]

\* One request served without interruption: the store afterwards and the
\* response.  input: the query parameters or body; rnd: the random draws.
Serve(users, props, method, path, input, rnd) ==
  LET r == Dispatch(method, path)
      h == IF r = 0 THEN "none" ELSE Routes[r].handler
      same(resp0) == [users |-> users, resp |-> resp0]
  IN  CASE h = "none"                  -> same(NoRoute(path))
        [] h = "health_ping"           -> same(health_ping)
        [] h = "register"              -> register(users, input, rnd)
        [] h = "login"                 -> same(login(users, input, rnd))
        [] h = "refresh_token"         -> same(refresh_token(rnd))
        [] h = "search_properties"     ->
             same(search_properties(props, input.page, input.pageSize, input.query))
        [] h = "get_property"          -> same(get_property(props, PathParam(r, path), rnd))
        [] h = "get_saved_properties"  -> same(get_saved_properties(props, rnd.saved))
        [] h = "save_property"         ->
             same(save_property(props, input.propertyId, input.alertsEnabled))
        [] h = "get_profile"           -> same(get_profile(users))
        [] h = "get_subscription"      -> same(get_subscription)
        [] h = "get_notifications"     -> same(get_notifications(input.page, input.pageSize))
        [] h = "verify_receipt"        -> same(verify_receipt)
        [] OTHER                       -> same(Empty(h))

(***************************************************************************)
(* Requests and random draws explored.                                     *)
(***************************************************************************)
Seeds == 1..NumSeeds
Workers == 1..NumWorkers

SeedEmails == {"test@example.com", "demo@rq.app"}
NewEmails == {"new@x.com", "fresh@x.com"}
Emails == SeedEmails \cup NewEmails
Passwords == {"password123", "demo123", "wrongpass"}

RegisterPayload(e) ==
  [ firstName |-> "Dana", lastName |-> "Levi", email |-> e, password |-> "s3cret",
    phone |-> IF e = "new@x.com" THEN "+972521112233" ELSE None ]

LoginPayload(e, pw) == [email |-> e, password |-> pw]

\* outcomes of uuid4().hex[:8] and uuid4().hex[:16]
Hex8 == {"0a1b2c3d", "9f8e7d6c"}
Hex16 == {"0123456789abcdef", "fedcba9876543210"}

SavedDraws ==
  { [i \in 1..SavedCount |-> [alertsEnabled |-> (b = (i % 2 = 0)), daysSaved |-> 1 + ((7 * i) % 30)]] :
      b \in BOOLEAN }

\* a full set of draws; each request uses the ones its handler makes
Rnd(hex8, hex1, hex2, mamad, parkingSpots, saved) ==
  [ hex8 |-> hex8, hex1 |-> hex1, hex2 |-> hex2, mamad |-> mamad,
    parkingSpots |-> parkingSpots, saved |-> saved ]

Rnd0 ==
  Rnd("0a1b2c3d", "0123456789abcdef", "0123456789abcdef", FALSE, 0,
      CHOOSE d \in SavedDraws : d[1].alertsEnabled)

Pages == (-1)..MaxPage
PageSizes == {-1, 0, 1, 3, 20, 50, 51}
Queries == {NoQuery, Query(<<>>), Query(cities[1]), Query(<<"3">>)}

FewPages == {1, 3}
FewPageSizes == {20, 50}
FewQueries == {NoQuery, Query(cities[3])}

PropertyId(i) == "property-" \o ToString(i)
AllPropertyIds == {PropertyId(i) : i \in 1..(CatalogSize + 1)} \cup {"unknown"}
FewPropertyIds == {PropertyId(1), PropertyId(CatalogSize), PropertyId(CatalogSize + 1), "unknown"}

NoInput == [none |-> TRUE]
NoRequest == [method |-> "none", path |-> <<>>, input |-> NoInput]
NoResponse == [status |-> 0, handler |-> "none", body |-> [none |-> TRUE]]
NoFrame == [op |-> "none"]

(***************************************************************************)
(* Start-up: the two seed users, the generated catalog, nothing served.    *)
(***************************************************************************)
Init ==
  /\ MOCK_USERS = SeedUsers
  /\ \E seed \in Seeds : MOCK_PROPERTIES = generate_mock_properties(seed)
  /\ req = NoRequest
  /\ resp = NoResponse
  /\ registered = {}
  /\ pc = [w \in Workers |-> "idle"]
  /\ frame = [w \in Workers |-> NoFrame]
  /\ wresp = [w \in Workers |-> NoResponse]

\* the registrations that were answered with success, as (email, id)
Registered(resp0) ==
  IF resp0.handler = "register" /\ resp0.status = 200
    THEN {[email |-> resp0.body.user.email, id |-> resp0.body.user.id]}
    ELSE {}

(***************************************************************************)
(* Requests served one at a time.                                          *)
(***************************************************************************)
Request(method, path, input) == [method |-> method, path |-> path, input |-> input]

Register ==
  \E e \in Emails, hex8 \in Hex8, hex1, hex2 \in Hex16 :
    LET path == Api(<<"auth", "register">>)
    IN  \E out \in {Serve(MOCK_USERS, MOCK_PROPERTIES, "POST", path, RegisterPayload(e),
                       [Rnd0 EXCEPT !.hex8 = hex8, !.hex1 = hex1, !.hex2 = hex2])} :
          /\ MOCK_USERS' = out.users
          /\ resp' = out.resp
          /\ req' = Request("POST", path, RegisterPayload(e))
          /\ registered' = registered \cup Registered(out.resp)
          /\ UNCHANGED <<MOCK_PROPERTIES, pc, frame, wresp>>

Login ==
  \E e \in Emails, pw \in Passwords, hex1, hex2 \in Hex16 :
    LET path == Api(<<"auth", "login">>)
    IN  \E out \in {Serve(MOCK_USERS, MOCK_PROPERTIES, "POST", path, LoginPayload(e, pw),
                       [Rnd0 EXCEPT !.hex1 = hex1, !.hex2 = hex2])} :
          /\ MOCK_USERS' = out.users
          /\ resp' = out.resp
          /\ req' = Request("POST", path, LoginPayload(e, pw))
          /\ UNCHANGED <<MOCK_PROPERTIES, registered, pc, frame, wresp>>

Search(pages, pageSizes, queries) ==
  \E page \in pages, pageSize \in pageSizes, query \in queries :
    LET path  == Api(<<"properties", "search">>)
        input == [page |-> page, pageSize |-> pageSize, query |-> query]
    IN  \E out \in {Serve(MOCK_USERS, MOCK_PROPERTIES, "GET", path, input, Rnd0)} :
          /\ MOCK_USERS' = out.users
          /\ resp' = out.resp
          /\ req' = Request("GET", path, input)
          /\ UNCHANGED <<MOCK_PROPERTIES, registered, pc, frame, wresp>>

GetProperty(ids) ==
  \E id \in ids, mamad \in BOOLEAN, parkingSpots \in 0..1 :
    LET path == Api(<<"properties", id>>)
    IN  \E out \in {Serve(MOCK_USERS, MOCK_PROPERTIES, "GET", path, NoInput,
                       [Rnd0 EXCEPT !.mamad = mamad, !.parkingSpots = parkingSpots])} :
          /\ MOCK_USERS' = out.users
          /\ resp' = out.resp
          /\ req' = Request("GET", path, NoInput)
          /\ UNCHANGED <<MOCK_PROPERTIES, registered, pc, frame, wresp>>

GetSaved ==
  \E saved \in SavedDraws, mamad \in BOOLEAN :
    LET path == Api(<<"properties", "saved">>)
    IN  \E out \in {Serve(MOCK_USERS, MOCK_PROPERTIES, "GET", path, NoInput,
                       [Rnd0 EXCEPT !.saved = saved, !.mamad = mamad])} :
          /\ MOCK_USERS' = out.users
          /\ resp' = out.resp
          /\ req' = Request("GET", path, NoInput)
          /\ UNCHANGED <<MOCK_PROPERTIES, registered, pc, frame, wresp>>

SaveProperty ==
  \E id \in FewPropertyIds, alerts \in BOOLEAN :
    LET path  == Api(<<"properties", "saved">>)
        input == [propertyId |-> id, alertsEnabled |-> alerts]
    IN  \E out \in {Serve(MOCK_USERS, MOCK_PROPERTIES, "POST", path, input, Rnd0)} :
          /\ MOCK_USERS' = out.users
          /\ resp' = out.resp
          /\ req' = Request("POST", path, input)
          /\ UNCHANGED <<MOCK_PROPERTIES, registered, pc, frame, wresp>>

\* the endpoints that neither read the catalog nor write the store, and two
\* requests no route serves
OtherRequests ==
  { <<"GET", <<"health", "ping">>>>,
    <<"POST", Api(<<"auth", "refresh">>)>>,
    <<"POST", Api(<<"auth", "logout">>)>>,
    <<"POST", Api(<<"auth", "verify-device">>)>>,
    <<"DELETE", Api(<<"properties", "saved", "saved-property-1">>)>>,
    <<"GET", Api(<<"user", "profile">>)>>,
    <<"GET", Api(<<"user", "subscription">>)>>,
    <<"GET", Api(<<"notifications">>)>>,
    <<"PUT", Api(<<"notifications", "notif-0", "read">>)>>,
    <<"POST", Api(<<"billing", "ios", "verify">>)>>,
    <<"PUT", Api(<<"user", "profile">>)>>,
    <<"GET", Api(<<"nowhere">>)>> }

Other ==
  \E r \in OtherRequests, pageSize \in {-1, 2}, hex1 \in Hex16 :
    LET input == [page |-> 1, pageSize |-> pageSize]
    IN  \E out \in {Serve(MOCK_USERS, MOCK_PROPERTIES, r[1], r[2], input,
                       [Rnd0 EXCEPT !.hex1 = hex1])} :
          /\ MOCK_USERS' = out.users
          /\ resp' = out.resp
          /\ req' = Request(r[1], r[2], input)
          /\ UNCHANGED <<MOCK_PROPERTIES, registered, pc, frame, wresp>>

Next ==
  \/ Register
  \/ Login
  \/ Search(FewPages, FewPageSizes, FewQueries)
  \/ GetProperty(FewPropertyIds)
  \/ GetSaved
  \/ SaveProperty
  \/ Other

Spec == Init /\ [][Next]_vars

\* clients that only search
SearchNext == Search(Pages, PageSizes, Queries)

SearchSpec == Init /\ [][SearchNext]_vars

\* clients that only read property details
DetailNext == GetProperty(AllPropertyIds)

DetailSpec == Init /\ [][DetailNext]_vars

(***************************************************************************)
(* Requests served by worker threads.  The framework runs each "def"       *)
(* handler on a thread of its pool, so handlers interleave between their   *)
(* accesses to MOCK_USERS.  pc[w] is where worker w stands, frame[w] its   *)
(* handler's locals, wresp[w] the response it last returned.               *)
(***************************************************************************)
ThreadEmails == {"test@example.com", "new@x.com"}
ThreadPasswords == {"password123", "wrongpass"}
ThreadHex16 == {"0123456789abcdef"}
NoUser == [id |-> None]

SetAt(f, w, v) == [f EXCEPT ![w] = v]

\* the framework hands a register request to an idle worker
RegisterCall(w) ==
  /\ pc[w] = "idle"
  /\ \E e \in ThreadEmails :
       frame' = SetAt(frame, w, [op |-> "register", payload |-> RegisterPayload(e),
                                 absent |-> FALSE, user |-> NoUser])
  /\ pc' = SetAt(pc, w, "reg_check")
  /\ wresp' = SetAt(wresp, w, NoResponse)
  /\ UNCHANGED <<MOCK_USERS, MOCK_PROPERTIES, req, resp, registered>>

\* "if payload.email in MOCK_USERS: raise HTTPException(409)"
RegisterCheck(w) ==
  /\ pc[w] = "reg_check"
  /\ IF EmailTaken(MOCK_USERS, frame[w].payload.email)
       THEN /\ wresp' = SetAt(wresp, w, Conflict)
            /\ pc' = SetAt(pc, w, "idle")
            /\ frame' = frame
       ELSE /\ wresp' = wresp
            /\ pc' = SetAt(pc, w, "reg_insert")
            /\ frame' = SetAt(frame, w, [frame[w] EXCEPT !.absent = TRUE])
  /\ UNCHANGED <<MOCK_USERS, MOCK_PROPERTIES, req, resp, registered>>

\* a variant that looks again before it writes and raises 409 when the email
\* has been taken meanwhile
InsertStepChecked(users, fr, hex8) ==
  LET user == NewUser(fr.payload, UserId(hex8))
  IN  IF fr.payload.email \in DOMAIN users
        THEN [users |-> users, user |-> user, raised |-> Conflict]
        ELSE [users |-> Put(users, fr.payload.email, user), user |-> user, raised |-> NoResponse]

\* what the lines from "user_id = ..." to "MOCK_USERS[payload.email] = user"
\* do for a worker with locals fr: the store afterwards, the user built, and
\* the response raised, if any
InsertStep(users, fr, hex8) ==
  LET user == NewUser(fr.payload, UserId(hex8))
  IN  [users |-> Put(users, fr.payload.email, user), user |-> user, raised |-> NoResponse]

RegisterInsert(w) ==
  /\ pc[w] = "reg_insert"
  /\ \E hex8 \in Hex8 :
       \E out \in {InsertStep(MOCK_USERS, frame[w], hex8)} :
         /\ MOCK_USERS' = out.users
         /\ frame' = SetAt(frame, w, [frame[w] EXCEPT !.user = out.user])
         /\ IF out.raised = NoResponse
              THEN pc' = SetAt(pc, w, "reg_return") /\ wresp' = wresp
              ELSE pc' = SetAt(pc, w, "idle") /\ wresp' = SetAt(wresp, w, out.raised)
  /\ UNCHANGED <<MOCK_PROPERTIES, req, resp, registered>>

\* "tokens = generate_tokens(user_id); return {user, tokens}"
RegisterReturn(w) ==
  /\ pc[w] = "reg_return"
  /\ \E hex1, hex2 \in ThreadHex16 :
       \E out \in {Ok("register", [user |-> frame[w].user,
                                   tokens |-> generate_tokens(frame[w].user.id, hex1, hex2)])} :
         /\ wresp' = SetAt(wresp, w, out)
         /\ registered' = registered \cup Registered(out)
  /\ pc' = SetAt(pc, w, "idle")
  /\ UNCHANGED <<MOCK_USERS, MOCK_PROPERTIES, req, resp, frame>>

LoginCall(w) ==
  /\ pc[w] = "idle"
  /\ \E e \in ThreadEmails, pw \in ThreadPasswords :
       frame' = SetAt(frame, w, [op |-> "login", payload |-> LoginPayload(e, pw),
                                 absent |-> FALSE, user |-> NoUser])
  /\ pc' = SetAt(pc, w, "login_check")
  /\ wresp' = SetAt(wresp, w, NoResponse)
  /\ UNCHANGED <<MOCK_USERS, MOCK_PROPERTIES, req, resp, registered>>

\* "if email not in MOCK_USERS or password not in {...}: raise HTTPException(401)"
LoginCheck(w) ==
  /\ pc[w] = "login_check"
  /\ IF LoginRejected(MOCK_USERS, frame[w].payload.email, frame[w].payload.password)
       THEN wresp' = SetAt(wresp, w, Unauthorized) /\ pc' = SetAt(pc, w, "idle")
       ELSE wresp' = wresp /\ pc' = SetAt(pc, w, "login_return")
  /\ UNCHANGED <<MOCK_USERS, MOCK_PROPERTIES, req, resp, registered, frame>>

\* "user = MOCK_USERS[email].copy(); tokens = ...; return {user, tokens}"
LoginReturn(w) ==
  /\ pc[w] = "login_return"
  /\ \E hex1, hex2 \in ThreadHex16 :
       LET user == MOCK_USERS[frame[w].payload.email]
       IN  /\ wresp' = SetAt(wresp, w,
                             Ok("login", [user |-> user,
                                          tokens |-> generate_tokens(user.id, hex1, hex2)]))
           /\ frame' = SetAt(frame, w, [frame[w] EXCEPT !.user = user])
  /\ pc' = SetAt(pc, w, "idle")
  /\ UNCHANGED <<MOCK_USERS, MOCK_PROPERTIES, req, resp, registered>>

ThreadNext ==
  \E w \in Workers :
    \/ RegisterCall(w)
    \/ RegisterCheck(w)
    \/ RegisterInsert(w)
    \/ RegisterReturn(w)
    \/ LoginCall(w)
    \/ LoginCheck(w)
    \/ LoginReturn(w)

\* the catalog plays no part in the authentication handlers: one outcome of
\* the generator is kept
ThreadInit == Init /\ MOCK_PROPERTIES = generate_mock_properties(1)

ThreadSpec == ThreadInit /\ [][ThreadNext]_vars

(***************************************************************************)
(* Properties.                                                             *)
(***************************************************************************)
IsRequest(r, method, path) == r.method = method /\ r.path = path

RegisterPath == Api(<<"auth", "register">>)
LoginPath == Api(<<"auth", "login">>)
SearchPath == Api(<<"properties", "search">>)
SavedPath == Api(<<"properties", "saved">>)

RegisteredEmails == {r.email : r \in registered}

EmbedsId(tokens, id) ==
  /\ tokens.accessToken \in {"access-token-" \o id \o "-" \o h : h \in Hex16}
  /\ tokens.refreshToken \in {"refresh-token-" \o id \o "-" \o h : h \in Hex16}

C1_RegisterStep ==
  IsRequest(req', "POST", RegisterPath) =>
    LET e == req'.input.email
    IN  /\ (resp'.status = 200) <=> (e \notin DOMAIN MOCK_USERS)
        /\ (resp'.status # 200) => (resp'.status = 409 /\ resp'.body.error = "conflict")
        /\ (e \in RegisteredEmails) => (resp'.status = 409)
        /\ (e \in {"test@example.com", "demo@rq.app"}) => (resp'.status = 409)

\* C1: with requests served one at a time, register(e) succeeds exactly when
\* e is not yet a key of the store; once it has succeeded every later
\* register(e) is answered 409 conflict, and a seed email is always answered
\* 409 conflict.
C1_RegisterOnceThenConflict == [][C1_RegisterStep]_vars

\* an email unknown at start-up was registered and then registered again
C1_Witness ==
  /\ IsRequest(req, "POST", RegisterPath)
  /\ req.input.email \in NewEmails
  /\ req.input.email \in RegisteredEmails
  /\ resp.status = 409

\* C2: GET /api/v2/mobile/properties/saved is answered by get-saved with the
\* five entries saved-property-1 .. saved-property-5 built from the front of
\* the catalog, never with not_found.
C2_GetSavedAnswered ==
  IsRequest(req, "GET", SavedPath) =>
    /\ resp.handler = "get_saved_properties"
    /\ resp.status = 200
    /\ Len(resp.body.items) = 5
    /\ \A i \in 1..5 :
         /\ resp.body.items[i].id = "saved-property-" \o ToString(i)
         /\ resp.body.items[i].property = MOCK_PROPERTIES[i]

\* C3: whatever page, pageSize and query, search completes with the success
\* envelope: never an exception, never an error response.
C3_SearchNeverFails ==
  IsRequest(req, "GET", SearchPath) =>
    /\ resp.handler = "search_properties"
    /\ resp.status = 200
    /\ DOMAIN resp.body = {"items", "meta"}

\* the number of catalog properties that pass the request's filter
PassingCount(query) ==
  IF query.present /\ query.text # <<>>
    THEN Cardinality({i \in 1..Len(MOCK_PROPERTIES) :
                        Matches(Lower(query.text), MOCK_PROPERTIES[i])})
    ELSE Len(MOCK_PROPERTIES)

\* C4: for pageSize >= 1, meta.pageSize is min(pageSize, 50), meta.totalItems
\* is the number of properties passing the filter and meta.totalPages is
\* floor(totalItems / meta.pageSize) + 1, one page too many when totalItems
\* is a multiple of the page size.
C4_TotalPages ==
  (IsRequest(req, "GET", SearchPath) /\ req.input.pageSize >= 1) =>
    /\ resp.status = 200
    /\ resp.body.meta.pageSize = Min(req.input.pageSize, 50)
    /\ resp.body.meta.totalItems = PassingCount(req.input.query)
    /\ resp.body.meta.totalPages =
         (resp.body.meta.totalItems \div resp.body.meta.pageSize) + 1

\* 50 items at 50 a page are reported as 2 pages
C4_Witness ==
  /\ IsRequest(req, "GET", SearchPath)
  /\ req.input.pageSize >= 50
  /\ resp.status = 200
  /\ resp.body.meta.totalItems = 50
  /\ resp.body.meta.pageSize = 50
  /\ resp.body.meta.totalPages = 2

\* C5: with no query, page >= 1 and pageSize >= 1, the items are the catalog
\* entries start+1 .. start+len in catalog order, start = (page-1) * ps and
\* ps = min(pageSize, 50): ps of them on a full page, 50 - start on the last
\* partial page, none from start >= 50 on.
C5_PageItems ==
  ( /\ IsRequest(req, "GET", SearchPath)
    /\ ~req.input.query.present
    /\ req.input.page >= 1
    /\ req.input.pageSize >= 1 ) =>
    LET ps    == Min(req.input.pageSize, 50)
        start == (req.input.page - 1) * ps
        items == resp.body.items
    IN  /\ resp.status = 200
        /\ resp.body.meta.totalItems = 50
        /\ Len(items) = IF start >= 50 THEN 0
                        ELSE IF start + ps <= 50 THEN ps ELSE 50 - start
        /\ \A k \in 1..Len(items) : items[k] = MOCK_PROPERTIES[start + k]

\* the last, partial page: page 3 at 20 a page holds the last 10 entries
C5_Witness ==
  /\ IsRequest(req, "GET", SearchPath)
  /\ ~req.input.query.present
  /\ req.input.page = 3
  /\ req.input.pageSize = 20
  /\ resp.status = 200
  /\ Len(resp.body.items) = 10

C6_LoginStep ==
  IsRequest(req', "POST", LoginPath) =>
    LET e  == req'.input.email
        pw == req'.input.password
    IN  /\ (resp'.status = 200) <=>
             (e \in DOMAIN MOCK_USERS /\ pw \in {"password123", "demo123"})
        /\ (resp'.status # 200) => (resp'.status = 401 /\ resp'.body.error = "unauthorized")
        /\ (resp'.status = 200) =>
             /\ resp'.body.user = MOCK_USERS[e]
             /\ EmbedsId(resp'.body.tokens, MOCK_USERS[e].id)
        /\ MOCK_USERS' = MOCK_USERS

\* C6: login succeeds exactly when the email is a key of the store and the
\* password is "password123" or "demo123", and is answered 401 unauthorized
\* otherwise; on success the user returned is the stored record and the
\* tokens embed its id; login leaves the store as it was.
C6_LoginRule == [][C6_LoginStep]_vars

\* a user registered after start-up logs in with a magic password
C6_Witness ==
  /\ IsRequest(req, "POST", LoginPath)
  /\ req.input.email \in NewEmails
  /\ req.input.password = "demo123"
  /\ resp.status = 200
  /\ resp.body.user.id # "user-123"

DetailOf(r, res) ==
  /\ r.method = "GET"
  /\ res.handler = "get_property"
  /\ res.status = 200

\* C7 as stated: the detail response of every catalog property has
\* prediction.forecast12Months = round(price * 1.05).
C7_ForecastRounded ==
  DetailOf(req, resp) =>
    resp.body.prediction.forecast12Months = RoundHalfEven(resp.body.price * 105, 100)

\* C7, amended: the detail response of every catalog property, its price an
\* integer of [1,000,000; 6,000,000], has prediction.forecast12Months =
\* floor(price * 105 / 100), price * 1.05 truncated; that is round(price * 1.05)
\* only when the fraction cut off is below one half (or is one half and the
\* floor is even).
C7_ForecastTruncated ==
  DetailOf(req, resp) =>
    LET price == resp.body.price
        f     == resp.body.prediction.forecast12Months
        cut   == 105 * price - 100 * f
    IN  /\ resp.body.id = req.path[Len(req.path)]
        /\ \E i \in 1..Len(MOCK_PROPERTIES) :
             MOCK_PROPERTIES[i].id = resp.body.id /\ MOCK_PROPERTIES[i].price = price
        /\ price >= 1000000 /\ price <= 6000000
        /\ 0 <= cut /\ cut < 100
        /\ (f = RoundHalfEven(price * 105, 100)) <=> (cut < 50 \/ (cut = 50 /\ f % 2 = 0))

\* a property whose forecast is below the rounded value
C7_Witness ==
  /\ DetailOf(req, resp)
  /\ resp.body.prediction.forecast12Months + 1 = RoundHalfEven(resp.body.price * 105, 100)

\* worker w is in, or has finished, a register call that saw its email absent
PassedCheck(w) == frame[w].op = "register" /\ frame[w].absent

Racing(p, q) ==
  /\ p # q
  /\ PassedCheck(p) /\ PassedCheck(q)
  /\ frame[p].payload.email = frame[q].payload.email

\* C8: check and insert are separate steps with no lock, so two registrations
\* of one unknown email can both see it absent before either inserts; both
\* then return success, neither 409, each with the user record it created.
C8_RaceBothSucceed ==
  \A p, q \in Workers :
    (Racing(p, q) /\ pc[p] = "idle" /\ pc[q] = "idle") =>
      /\ wresp[p].status = 200 /\ wresp[q].status = 200
      /\ wresp[p].body.user = frame[p].user /\ wresp[q].body.user = frame[q].user
      /\ wresp[p].body.user.email = frame[p].payload.email
      /\ wresp[q].body.user.email = frame[p].payload.email

\* two registrations of one email have both returned success, with two ids
C8_Witness ==
  \E p, q \in Workers :
    /\ Racing(p, q) /\ pc[p] = "idle" /\ pc[q] = "idle"
    /\ wresp[p].status = 200 /\ wresp[q].status = 200
    /\ wresp[p].body.user.id # wresp[q].body.user.id

StoreOk ==
  /\ \A e \in DOMAIN MOCK_USERS : MOCK_USERS[e].email = e
  /\ \A e1, e2 \in DOMAIN MOCK_USERS :
       MOCK_USERS[e1].email = MOCK_USERS[e2].email => e1 = e2
  /\ "test@example.com" \in DOMAIN MOCK_USERS
  /\ MOCK_USERS["test@example.com"].id = "user-123"
  /\ "demo@rq.app" \in DOMAIN MOCK_USERS
  /\ MOCK_USERS["demo@rq.app"].id = "user-456"

\* C9: under any interleaving the store holds at most one record per email,
\* the record under key e has email e, the two seed users stay with their
\* ids user-123 and user-456, and no step removes a key.
C9_StoreInvariant ==
  /\ []StoreOk
  /\ [][DOMAIN MOCK_USERS \subseteq DOMAIN MOCK_USERS']_vars

\* two racing registrations of one email have both written the store
C9_Witness ==
  /\ \E p, q \in Workers :
       Racing(p, q) /\ pc[p] \in {"reg_return", "idle"} /\ pc[q] \in {"reg_return", "idle"}
  /\ Cardinality(DOMAIN MOCK_USERS) = 3

\* C10: once register(e) has returned success with id u, the store maps e to
\* the record with id u in every later state, and every later successful
\* login(e) returns id u.
C10_RegistrationDurable ==
  \A r \in registered :
    /\ r.email \in DOMAIN MOCK_USERS
    /\ MOCK_USERS[r.email].id = r.id

====
